---- MODULE Spec2Model ----
(***************************************************************************)
(* Model of .github/actions/javascript/authorChecklist/                    *)
(* newComponentCategory.js: the file filter, the content fetcher with its  *)
(* base64 decoding, the component classifier, the detection loop of        *)
(* detectFunction and the checklist; and of the Avatar component           *)
(* (Avatar.tsx) with its image-error state.                                *)
(*                                                                         *)
(* Texts (file names, sources, base64 payloads) are tuples of character    *)
(* codes, so that suffix tests and decoding are computed, not assumed.     *)
(*                                                                         *)
(* Specifications: Spec (one call of detectFunction), SpecTwoRuns (two     *)
(* calls in sequence), SpecTermination (requests that may never settle,    *)
(* with fairness), SpecClassifier (the traversal on generated trees) and   *)
(* SpecAvatar (the Avatar on screen).                                      *)
(***************************************************************************)
EXTENDS Integers, Sequences, FiniteSets, TLC

\* Longest changed-file list explored.
MaxFiles == 2

\* Most top-level function declarations in a generated program.
MaxDecls == 2

\* Most statements in a generated function body.
MaxBody == 2

----------------------------------------------------------------------------
(* File names and statuses of the changed-file descriptors.                *)

\* "a.js"
NameAJs ==
    <<97, 46, 106, 115>>
\* "b.jsx"
NameBJsx ==
    <<98, 46, 106, 115, 120>>
\* "c.ts"
NameCTs ==
    <<99, 46, 116, 115>>
\* "d.tsx"
NameDTsx ==
    <<100, 46, 116, 115, 120>>
\* "a.py"
NameAPy ==
    <<97, 46, 112, 121>>
\* "E.JS"
NameEUpperJs ==
    <<69, 46, 74, 83>>

FileNames ==
    {NameAJs, NameBJsx, NameCTs, NameDTsx, NameAPy, NameEUpperJs}

Statuses ==
    {"added", "modified", "removed"}

ChangedFile ==
    [filename : FileNames, status : Statuses]

\* ".js"
ExtJs ==
    <<46, 106, 115>>
\* ".jsx"
ExtJsx ==
    <<46, 106, 115, 120>>
\* ".ts"
ExtTs ==
    <<46, 116, 115>>
\* ".tsx"
ExtTsx ==
    <<46, 116, 115, 120>>

\* String.prototype.endsWith
endsWith(s, suffix) ==
    /\ Len(s) >= Len(suffix)
    /\ SubSeq(s, Len(s) - Len(suffix) + 1, Len(s)) = suffix

\* filterFiles with the status test turned into status === 'removed': files of
\* any other status pass it.
filterFilesNotRemoved(file) ==
    IF file.status = "removed"
    THEN FALSE
    ELSE \/ endsWith(file.filename, ExtJs)
         \/ endsWith(file.filename, ExtJsx)
         \/ endsWith(file.filename, ExtTs)
         \/ endsWith(file.filename, ExtTsx)

\* filterFiles without the test of the extension.
filterFilesAnyAdded(file) ==
    file.status = "added"

\* filterFiles({filename, status})
filterFiles(file) ==
    IF file.status # "added"
    THEN FALSE
    ELSE \/ endsWith(file.filename, ExtJs)
         \/ endsWith(file.filename, ExtJsx)
         \/ endsWith(file.filename, ExtTs)
         \/ endsWith(file.filename, ExtTsx)

\* _.filter(collection, predicate) with predicate filterFiles: a new array of
\* the entries the predicate accepts, in iteration order.
RECURSIVE filter(_)
filter(files) ==
    IF files = <<>>
    THEN <<>>
    ELSE IF filterFiles(Head(files))
         THEN <<Head(files)>> \o filter(Tail(files))
         ELSE filter(Tail(files))

----------------------------------------------------------------------------
(* Content decoding: Buffer.from(data, 'base64').toString('utf-8').        *)

\* Value of one character of a base64 text: 0..63 for a character of the
\* alphabet (standard or URL-safe), -1 for any other character.
Base64Value(c) ==
    IF c >= 65 /\ c <= 90 THEN c - 65
    ELSE IF c >= 97 /\ c <= 122 THEN c - 71
    ELSE IF c >= 48 /\ c <= 57 THEN c + 4
    ELSE IF c = 43 \/ c = 45 THEN 62
    ELSE IF c = 47 \/ c = 95 THEN 63
    ELSE -1

\* The part of a base64 text that is decoded: decoding stops at the first
\* '=' (code 61).
BeforePadding(chars) ==
    IF \E i \in 1..Len(chars) : chars[i] = 61
    THEN SubSeq(chars, 1, (CHOOSE i \in 1..Len(chars) :
                               /\ chars[i] = 61
                               /\ \A j \in 1..(i - 1) : chars[j] # 61) - 1)
    ELSE chars

\* Whether c is a character of the base64 alphabet.
IsBase64Char(c) ==
    Base64Value(c) >= 0

\* The 6-bit values of a base64 text: every character outside the alphabet
\* (line breaks included) is skipped.
Base64Sextets(chars) ==
    LET kept == SelectSeq(BeforePadding(chars), IsBase64Char)
    IN  [i \in 1..Len(kept) |-> Base64Value(kept[i])]

\* Groups of four 6-bit values to three bytes; a final group of two or three
\* values gives one or two bytes, a single left-over value gives none.
Base64Bytes(s) ==
    [j \in 1..((Len(s) * 6) \div 8) |->
        LET g == 4 * ((j - 1) \div 3)
        IN  CASE (j - 1) % 3 = 0 -> s[g + 1] * 4 + (s[g + 2] \div 16)
              [] (j - 1) % 3 = 1 -> (s[g + 2] % 16) * 16 + (s[g + 3] \div 4)
              [] (j - 1) % 3 = 2 -> (s[g + 3] % 4) * 64 + s[g + 4]]

\* Whether byte i is the second byte of a two-byte UTF-8 sequence.
IsSecondByte(bytes, i) ==
    /\ i > 1
    /\ bytes[i] >= 128
    /\ bytes[i] <= 191
    /\ bytes[i - 1] >= 194
    /\ bytes[i - 1] <= 223

\* The character that starts at byte i: the byte itself below 128, the code
\* point of a two-byte sequence, U+FFFD for any other byte.
Utf8CharAt(bytes, i) ==
    IF bytes[i] < 128 THEN bytes[i]
    ELSE IF i < Len(bytes) /\ IsSecondByte(bytes, i + 1)
         THEN (bytes[i] - 192) * 64 + (bytes[i + 1] - 128)
    ELSE 65533

\* Buffer.prototype.toString('utf-8'): one-byte and two-byte sequences are
\* decoded, any other byte yields U+FFFD (the payloads explored hold no
\* three- or four-byte sequence).
Utf8ToString(bytes) ==
    LET starts == SelectSeq([i \in 1..Len(bytes) |-> i],
                            LAMBDA i : ~IsSecondByte(bytes, i))
    IN  [k \in 1..Len(starts) |-> Utf8CharAt(bytes, starts[k])]

\* nodeBase64ToUtf8(data)
nodeBase64ToUtf8(data) ==
    LET sextets == Base64Sextets(data)
        bytes == Base64Bytes(sextets)
    IN  Utf8ToString(bytes)

----------------------------------------------------------------------------
(* Source texts served by the remote, with the base64 form in which the    *)
(* content API delivers them (lines of 60 characters, each ended by \n).   *)

\* function Foo() { return <div/>; }
TextA ==
    <<102, 117, 110, 99, 116, 105, 111, 110, 32, 70, 111, 111, 40, 41, 32, 123,
      32, 114, 101, 116, 117, 114, 110, 32, 60, 100, 105, 118, 47, 62, 59, 32,
      125>>
\* ZnVuY3Rpb24gRm9vKCkgeyByZXR1cm4gPGRpdi8+OyB9\n
Base64A ==
    <<90, 110, 86, 117, 89, 51, 82, 112, 98, 50, 52, 103, 82, 109, 57, 118,
      75, 67, 107, 103, 101, 121, 66, 121, 90, 88, 82, 49, 99, 109, 52, 103,
      80, 71, 82, 112, 100, 105, 56, 43, 79, 121, 66, 57, 10>>
\* function foo() { return 1; }
TextB ==
    <<102, 117, 110, 99, 116, 105, 111, 110, 32, 102, 111, 111, 40, 41, 32, 123,
      32, 114, 101, 116, 117, 114, 110, 32, 49, 59, 32, 125>>
\* ZnVuY3Rpb24gZm9vKCkgeyByZXR1cm4gMTsgfQ==\n
Base64B ==
    <<90, 110, 86, 117, 89, 51, 82, 112, 98, 50, 52, 103, 90, 109, 57, 118,
      75, 67, 107, 103, 101, 121, 66, 121, 90, 88, 82, 49, 99, 109, 52, 103,
      77, 84, 115, 103, 102, 81, 61, 61, 10>>
\* function Foo() { return <div/>;
TextD ==
    <<102, 117, 110, 99, 116, 105, 111, 110, 32, 70, 111, 111, 40, 41, 32, 123,
      32, 114, 101, 116, 117, 114, 110, 32, 60, 100, 105, 118, 47, 62, 59>>
\* ZnVuY3Rpb24gRm9vKCkgeyByZXR1cm4gPGRpdi8+Ow==\n
Base64D ==
    <<90, 110, 86, 117, 89, 51, 82, 112, 98, 50, 52, 103, 82, 109, 57, 118,
      75, 67, 107, 103, 101, 121, 66, 121, 90, 88, 82, 49, 99, 109, 52, 103,
      80, 71, 82, 112, 100, 105, 56, 43, 79, 119, 61, 61, 10>>
\* function f() { return; } function Foo() { return <div/>; }
TextW ==
    <<102, 117, 110, 99, 116, 105, 111, 110, 32, 102, 40, 41, 32, 123, 32, 114,
      101, 116, 117, 114, 110, 59, 32, 125, 32, 102, 117, 110, 99, 116, 105, 111,
      110, 32, 70, 111, 111, 40, 41, 32, 123, 32, 114, 101, 116, 117, 114, 110,
      32, 60, 100, 105, 118, 47, 62, 59, 32, 125>>
\* ZnVuY3Rpb24gZigpIHsgcmV0dXJuOyB9IGZ1bmN0aW9uIEZvbygpIHsgcmV0\ndXJuIDxkaXYvPjsgfQ==\n
Base64W ==
    <<90, 110, 86, 117, 89, 51, 82, 112, 98, 50, 52, 103, 90, 105, 103, 112,
      73, 72, 115, 103, 99, 109, 86, 48, 100, 88, 74, 117, 79, 121, 66, 57,
      73, 71, 90, 49, 98, 109, 78, 48, 97, 87, 57, 117, 73, 69, 90, 118,
      98, 121, 103, 112, 73, 72, 115, 103, 99, 109, 86, 48, 10, 100, 88, 74,
      117, 73, 68, 120, 107, 97, 88, 89, 118, 80, 106, 115, 103, 102, 81, 61,
      61, 10>>
\* function Café() { return <div/>; }
TextU ==
    <<102, 117, 110, 99, 116, 105, 111, 110, 32, 67, 97, 102, 233, 40, 41, 32,
      123, 32, 114, 101, 116, 117, 114, 110, 32, 60, 100, 105, 118, 47, 62, 59,
      32, 125>>
\* ZnVuY3Rpb24gQ2Fmw6koKSB7IHJldHVybiA8ZGl2Lz47IH0=\n
Base64U ==
    <<90, 110, 86, 117, 89, 51, 82, 112, 98, 50, 52, 103, 81, 50, 70, 109,
      119, 54, 107, 111, 75, 83, 66, 55, 73, 72, 74, 108, 100, 72, 86, 121,
      98, 105, 65, 56, 90, 71, 108, 50, 76, 122, 52, 55, 73, 72, 48, 61,
      10>>
\* A declaration with a type annotation on its parameter, as that of
\* Avatar.tsx:
\* function Avatar({source}: AvatarProps) { return <View/>; }
TextT ==
    <<102, 117, 110, 99, 116, 105, 111, 110, 32, 65, 118, 97, 116, 97, 114, 40,
      123, 115, 111, 117, 114, 99, 101, 125, 58, 32, 65, 118, 97, 116, 97, 114,
      80, 114, 111, 112, 115, 41, 32, 123, 32, 114, 101, 116, 117, 114, 110, 32,
      60, 86, 105, 101, 119, 47, 62, 59, 32, 125>>
\* ZnVuY3Rpb24gQXZhdGFyKHtzb3VyY2V9OiBBdmF0YXJQcm9wcykgeyByZXR1\ncm4gPFZpZXcvPjsgfQ==\n
Base64T ==
    <<90, 110, 86, 117, 89, 51, 82, 112, 98, 50, 52, 103, 81, 88, 90, 104,
      100, 71, 70, 121, 75, 72, 116, 122, 98, 51, 86, 121, 89, 50, 86, 57,
      79, 105, 66, 66, 100, 109, 70, 48, 89, 88, 74, 81, 99, 109, 57, 119,
      99, 121, 107, 103, 101, 121, 66, 121, 90, 88, 82, 49, 10, 99, 109, 52,
      103, 80, 70, 90, 112, 90, 88, 99, 118, 80, 106, 115, 103, 102, 81, 61,
      61, 10>>
\* The empty text.
TextEmpty ==
    <<>>

Samples ==
    {"A", "B", "D", "W", "U", "T", "Empty"}

SampleText(s) ==
    CASE s = "A" -> TextA
      [] s = "B" -> TextB
      [] s = "D" -> TextD
      [] s = "W" -> TextW
      [] s = "U" -> TextU
      [] s = "T" -> TextT
      [] s = "Empty" -> TextEmpty

SampleBase64(s) ==
    CASE s = "A" -> Base64A
      [] s = "B" -> Base64B
      [] s = "D" -> Base64D
      [] s = "W" -> Base64W
      [] s = "U" -> Base64U
      [] s = "T" -> Base64T
      [] s = "Empty" -> TextEmpty

----------------------------------------------------------------------------
(* Syntax trees.  A node is a record with a type; a FunctionDeclaration    *)
(* keeps its id and the statement list of its block (node.body.body) in    *)
(* body, a ReturnStatement keeps its argument.                             *)

\* The JavaScript value null.
Null ==
    [type |-> "null"]

Identifier(name) ==
    [type |-> "Identifier", name |-> name]

JSXElement ==
    [type |-> "JSXElement"]

NumericLiteral ==
    [type |-> "NumericLiteral"]

ReturnStatement(argument) ==
    [type |-> "ReturnStatement", argument |-> argument]

FunctionDeclaration(id, body) ==
    [type |-> "FunctionDeclaration", id |-> id, body |-> body]

Program(body) ==
    [type |-> "Program", body |-> body]

\* if (...) { consequent }: consequent is the statement list of the block.
IfStatement(consequent) ==
    [type |-> "IfStatement", consequent |-> consequent]

\* An arrow function: body is the statement list of its block or, with
\* expression TRUE, the one expression it returns.
ArrowFunctionExpression(expression, body) ==
    [type |-> "ArrowFunctionExpression", expression |-> expression, body |-> body]

FunctionExpression(body) ==
    [type |-> "FunctionExpression", body |-> body]

\* const name = init
VariableDeclaration(init) ==
    [type |-> "VariableDeclaration", init |-> init]

ClassMethod(body) ==
    [type |-> "ClassMethod", body |-> body]

\* body is the list of the members of the class.
ClassDeclaration(body) ==
    [type |-> "ClassDeclaration", body |-> body]

\* What parse throws on a source it does not accept.
SyntaxError ==
    [type |-> "SyntaxError"]

\* parse(code, {sourceType: 'module', plugins: ['jsx']}) on the texts
\* explored: the tree of each sample, a SyntaxError for the sample with the
\* unbalanced brace and for every text that is none of the samples.  The
\* plugins do not include typescript: the colon of a type annotation is an
\* unexpected token.
parse(code) ==
    IF code = TextA
    THEN Program(<<FunctionDeclaration(Identifier("Foo"), <<ReturnStatement(JSXElement)>>)>>)
    ELSE IF code = TextB
    THEN Program(<<FunctionDeclaration(Identifier("foo"), <<ReturnStatement(NumericLiteral)>>)>>)
    ELSE IF code = TextW
    THEN Program(<<FunctionDeclaration(Identifier("f"), <<ReturnStatement(Null)>>),
                   FunctionDeclaration(Identifier("Foo"), <<ReturnStatement(JSXElement)>>)>>)
    ELSE IF code = TextU
    THEN Program(<<FunctionDeclaration(Identifier("Cafe"), <<ReturnStatement(JSXElement)>>)>>)
    ELSE IF code = TextEmpty
    THEN Program(<<>>)
    ELSE IF code = TextT
    THEN SyntaxError
    ELSE SyntaxError

----------------------------------------------------------------------------
(* The component classifier.  Results and thrown errors are strings:       *)
(* "true", "false", "undefined" are returned values, "TypeError" and       *)
(* "SyntaxError" are exceptions leaving the call.                          *)

\* A traversal that enters the statements of the program only.
ChildrenOfProgramOnly(node) ==
    IF node.type = "Program" THEN node.body ELSE <<>>

\* The nodes nested in a node, in source order.
Children(node) ==
    IF "body" \in DOMAIN node THEN node.body
    ELSE IF "consequent" \in DOMAIN node THEN node.consequent
    ELSE IF "init" \in DOMAIN node THEN <<node.init>>
    ELSE <<>>

\* The FunctionDeclaration nodes of a tree in the order traverse enters them
\* (depth first, a node before the nodes nested in it).
RECURSIVE FunctionDeclarationsOf(_)
RECURSIVE FunctionDeclarationsIn(_)
FunctionDeclarationsOf(node) ==
    IF node.type = "FunctionDeclaration"
    THEN <<node>> \o FunctionDeclarationsIn(Children(node))
    ELSE FunctionDeclarationsIn(Children(node))
FunctionDeclarationsIn(nodes) ==
    IF nodes = <<>>
    THEN <<>>
    ELSE FunctionDeclarationsOf(Head(nodes)) \o FunctionDeclarationsIn(Tail(nodes))

\* _.some(path.node.body.body, (node) => node.type === 'ReturnStatement'
\*        && node.argument.type === 'JSXElement'), left to right: reading
\* .type of a null argument throws a TypeError.
RECURSIVE SomeReturnsJSX(_)
SomeReturnsJSX(statements) ==
    IF statements = <<>> THEN "false"
    ELSE IF Head(statements).type # "ReturnStatement"
         THEN SomeReturnsJSX(Tail(statements))
    ELSE IF Head(statements).argument = Null THEN "TypeError"
    ELSE IF Head(statements).argument.type = "JSXElement" THEN "true"
    ELSE SomeReturnsJSX(Tail(statements))

\* The FunctionDeclaration visitor: the value of isReactComponent after the
\* visit of node, or the error the visit throws.
VisitFunctionDeclaration(isReactComponent, node) ==
    IF isReactComponent = "true" THEN "true"
    ELSE IF node.id = Null THEN isReactComponent
    ELSE IF SomeReturnsJSX(node.body) = "false" THEN isReactComponent
    ELSE SomeReturnsJSX(node.body)

\* traverse(ast, {FunctionDeclaration(path) {...}}) from isReactComponent =
\* false: the visits in order, ended by the first one that throws.
RECURSIVE Visits(_, _)
Visits(isReactComponent, declarations) ==
    IF declarations = <<>> THEN isReactComponent
    ELSE IF VisitFunctionDeclaration(isReactComponent, Head(declarations)) = "TypeError"
         THEN "TypeError"
    ELSE Visits(VisitFunctionDeclaration(isReactComponent, Head(declarations)),
                Tail(declarations))

traverse(ast) ==
    Visits("false", FunctionDeclarationsOf(ast))

\* detectReactComponent(code, filename)
detectReactComponent(code) ==
    IF code = <<>>
    THEN "undefined"
    ELSE IF parse(code) = SyntaxError
         THEN "SyntaxError"
         ELSE traverse(parse(code))

----------------------------------------------------------------------------
(* The remote content API and detectReactComponentInFile.                  *)

\* What getContent settles with: a rejection (transport or API error), an
\* object with a base64 content field, or the text itself as a string.
ErrorResponse ==
    [kind |-> "error", sample |-> "Empty"]

Responses ==
    {ErrorResponse}
        \cup [kind : {"object"}, sample : Samples]
        \cup [kind : {"text"}, sample : {"A", "B"}]

\* The exceptions of the model.
Errors ==
    {"RequestError", "TypeError", "SyntaxError"}

\* The body of the try block for the response of getContent: the await throws
\* the API's error; 'content' in data throws a TypeError when data is a
\* string; otherwise the decoded content goes to detectReactComponent.
TryFetchAndDetect(response) ==
    IF response.kind = "error" THEN "RequestError"
    ELSE IF response.kind = "text" THEN "TypeError"
    ELSE detectReactComponent(nodeBase64ToUtf8(SampleBase64(response.sample)))

\* A catch that lets the error of the API through.
CatchAndLogParseErrorsOnly(outcome) ==
    IF outcome \in {"SyntaxError", "TypeError"} THEN "undefined" ELSE outcome

\* A catch that handles the error of the API only, as if the classifier were
\* called after the try block.
CatchAndLogRequestErrorsOnly(outcome) ==
    IF outcome = "RequestError" THEN "undefined" ELSE outcome

\* try { ... } catch (error) { console.error(...) }: an exception of the try
\* block is logged and the function ends without a return value.
CatchAndLog(outcome) ==
    IF outcome \in Errors THEN "undefined" ELSE outcome

\* What the promise of detectReactComponentInFile(filename) settles with once
\* getContent has settled with response.
detectReactComponentInFile(response) ==
    CatchAndLog(TryFetchAndDetect(response))

----------------------------------------------------------------------------
(* State.                                                                  *)

VARIABLES
    changedFiles,    \* the argument of detectFunction
    headRef,         \* github.context.payload.pull_request.head.ref
    repoCoords,      \* CONST.GITHUB_OWNER and CONST.APP_REPO
    remote,          \* the response getContent gives for each filtered file
    pc,              \* where the call of detectFunction stands
    filteredFiles,   \* const filteredFiles
    index,           \* position in filteredFiles of the file of the loop
    outstanding,     \* positions whose getContent request is in flight
    fetchCalls,      \* the getContent calls made, in order
    fileResults,     \* the values of result, one per completed iteration
    verdict,         \* what detectFunction settled with
    ast,             \* classifier runs: the tree handed to traverse
    isReactComponent,\* classifier runs: the outcome of the traversal
    items,           \* the exported checklist array
    firstRun,        \* two calls in sequence: the record of the earlier call
    avatar           \* the mounted Avatar: its props, state and rendered output

vars ==
    <<changedFiles, headRef, repoCoords, remote, pc, filteredFiles, index,
      outstanding, fetchCalls, fileResults, verdict, ast, isReactComponent,
      items, firstRun, avatar>>

----------------------------------------------------------------------------
(* The checklist registry.                                                 *)

\* const items = [...]: the statements of the checklist, in order.  A
\* statement is the tuple of its pieces between backtick characters.
Items ==
    <<<<"I verified that similar component doesn't exist in the codebase">>,
      <<"I verified that all props are defined accurately and each prop has a ", "/** comment above it */", "">>,
      <<"I verified that each file is named correctly">>,
      <<"I verified that each component has a clear name that is non-ambiguous and the purpose of the component can be inferred from the name alone">>,
      <<"I verified that the only data being stored in component state is data necessary for rendering and nothing else">>,
      <<"In component if we are not using the full Onyx data that we loaded, I've added the proper selector in order to ensure the component only re-renders when the data it is using changes">>,
      <<"For Class Components, any internal methods passed to components event handlers are bound to ", "this", " properly so there are no scoping issues (i.e. for ", "onClick={this.submit}", " the method ", "this.submit", " should be bound to ", "this", " in the constructor)">>,
      <<"I verified that component internal methods bound to ", "this", " are necessary to be bound (i.e. avoid ", "this.submit = this.submit.bind(this);", " if ", "this.submit", " is never passed to a component event handler like ", "onClick", ")">>,
      <<"I verified that all JSX used for rendering exists in the render method">>,
      <<"I verified that each component has the minimum amount of code necessary for its purpose, and it is broken down into smaller components in order to separate concerns and functions">>>>

----------------------------------------------------------------------------
(* The Avatar component (Avatar.tsx).  A value of type AvatarSource is a   *)
(* URL string or an icon component, which is a function.                   *)

Undefined ==
    [kind |-> "undefined", id |-> "undefined"]

EmptyString ==
    [kind |-> "string", id |-> ""]

Url(id) ==
    [kind |-> "string", id |-> id]

IconComponent(id) ==
    [kind |-> "function", id |-> id]

\* The values the props source and fallbackIcon take.
AvatarSources ==
    {Undefined, EmptyString, Url("a.png"), Url("b.png"), IconComponent("Expensicons.Profile")}

FallbackIcons ==
    {Undefined, Url("fallback.png"), IconComponent("Expensicons.FallbackAvatar")}

\* CONST.ICON_TYPE_AVATAR and CONST.ICON_TYPE_WORKSPACE
AvatarTypes ==
    {"avatar", "workspace"}

\* illustrations.FallbackAvatar and ReportUtils.getDefaultWorkspaceAvatar(name)
\* are icon components.
ThemeFallbackAvatar ==
    IconComponent("illustrations.FallbackAvatar")

DefaultWorkspaceAvatar ==
    IconComponent("getDefaultWorkspaceAvatar(name)")

\* !source
IsFalsy(value) ==
    value \in {Undefined, EmptyString}

isWorkspace(type) ==
    type = "workspace"

\* isWorkspace ? ReportUtils.getDefaultWorkspaceAvatar(name)
\*             : fallbackIcon ?? illustrations.FallbackAvatar
fallbackAvatar(type, fallbackIcon) ==
    IF isWorkspace(type) THEN DefaultWorkspaceAvatar
    ELSE IF fallbackIcon = Undefined THEN ThemeFallbackAvatar
    ELSE fallbackIcon

\* const avatarSource = imageError ? fallbackAvatar : source
avatarSource(source, imageError, fallback) ==
    IF imageError THEN fallback ELSE source

\* What a render of Avatar returns: null, or the Icon or the Image with the
\* source it is given.
Render(source, imageError, fallback) ==
    IF IsFalsy(source)
    THEN [element |-> "null", source |-> Undefined]
    ELSE IF avatarSource(source, imageError, fallback).kind = "function"
    THEN [element |-> "Icon", source |-> avatarSource(source, imageError, fallback)]
    ELSE [element |-> "Image", source |-> avatarSource(source, imageError, fallback)]

\* The component a after a render with its current props and state.
Rerendered(a) ==
    [a EXCEPT !.rendered = Render(a.source, a.imageError,
                                  fallbackAvatar(a.type, a.fallbackIcon))]

\* The Avatar after its first render with the given props: imageError is
\* false and the effect of the mount is still to run.  loadErrorSinceReset
\* records whether onError was called since the last source change or
\* reconnect.
Mounted(source, fallbackIcon, type) ==
    Rerendered([source |-> source,
                fallbackIcon |-> fallbackIcon,
                type |-> type,
                imageError |-> FALSE,
                effectPending |-> TRUE,
                loadErrorSinceReset |-> FALSE,
                rendered |-> [element |-> "null", source |-> Undefined]])

\* No Avatar on screen.
NoAvatar ==
    [Mounted(Undefined, Undefined, "avatar") EXCEPT !.effectPending = FALSE]

----------------------------------------------------------------------------
(* The initial state of a call of detectFunction.                          *)

\* The pull-request context: complete, with head.ref undefined, or with
\* payload.pull_request undefined.
HeadRefs ==
    {"present", "refUndefined", "pullRequestUndefined"}

RepoCoords ==
    {"present", "missing"}

\* Sequences over S of length at most n.
SeqUpTo(S, n) ==
    UNION {[1..k -> S] : k \in 0..n}

\* A request without owner and repo names no repository, and a request
\* without ref is answered from the default branch, which does not hold a
\* file the pull request adds: the API answers both with an error.  With
\* pull_request undefined no request is ever made, and one pattern of
\* responses stands for all.
PossibleResponses(ref, coords) ==
    IF coords = "present" /\ ref = "present"
    THEN Responses
    ELSE {ErrorResponse}

Init ==
    /\ changedFiles \in SeqUpTo(ChangedFile, MaxFiles)
    /\ headRef \in HeadRefs
    /\ repoCoords \in RepoCoords
    /\ remote \in [1..Len(filter(changedFiles)) -> PossibleResponses(headRef, repoCoords)]
    /\ pc = "idle"
    /\ filteredFiles = <<>>
    /\ index = 0
    /\ outstanding = {}
    /\ fetchCalls = <<>>
    /\ fileResults = <<>>
    /\ verdict = "none"
    /\ ast = Null
    /\ isReactComponent = "none"
    /\ items = Items
    /\ firstRun = <<>>
    /\ avatar = NoAvatar

----------------------------------------------------------------------------
(* detectFunction.                                                         *)

\* The loop with the requests of all remaining files issued at once.
ProcessFromFanOut(i, files, inFlight) ==
    IF i > Len(files)
    THEN /\ pc' = "returned"
         /\ verdict' = "false"
         /\ index' = i
         /\ outstanding' = inFlight
         /\ fetchCalls' = fetchCalls
    ELSE IF headRef = "pullRequestUndefined"
    THEN /\ pc' = "rejected"
         /\ verdict' = "TypeError"
         /\ index' = i
         /\ outstanding' = inFlight
         /\ fetchCalls' = fetchCalls
    ELSE /\ pc' = "awaiting"
         /\ verdict' = verdict
         /\ index' = i
         /\ outstanding' = inFlight \cup (i..Len(files))
         /\ fetchCalls' = fetchCalls \o [k \in 1..(Len(files) - i + 1) |->
                               [position |-> i + k - 1, path |-> files[i + k - 1].filename]]

\* The for loop from the file at position i to its next suspension or to
\* the end of the call; inFlight are the requests still in flight.  Building
\* params reads pull_request.head.ref before the try block, so an undefined
\* pull_request throws out of detectReactComponentInFile and rejects the call.
ProcessFrom(i, files, inFlight) ==
    IF i > Len(files)
    THEN /\ pc' = "returned"
         /\ verdict' = "false"
         /\ index' = i
         /\ outstanding' = inFlight
         /\ fetchCalls' = fetchCalls
    ELSE IF headRef = "pullRequestUndefined"
    THEN /\ pc' = "rejected"
         /\ verdict' = "TypeError"
         /\ index' = i
         /\ outstanding' = inFlight
         /\ fetchCalls' = fetchCalls
    ELSE /\ pc' = "awaiting"
         /\ verdict' = verdict
         /\ index' = i
         /\ outstanding' = inFlight \cup {i}
         /\ fetchCalls' = Append(fetchCalls, [position |-> i, path |-> files[i].filename])

\* detectFunction taking the first statement off the checklist as it starts.
CallShiftingItems ==
    /\ pc = "idle"
    /\ filteredFiles' = filter(changedFiles)
    /\ ProcessFrom(1, filter(changedFiles), outstanding)
    /\ items' = Tail(items)
    /\ UNCHANGED <<firstRun, avatar, changedFiles, headRef, repoCoords, remote, fileResults,
                   ast, isReactComponent>>

\* detectFunction(changedFiles) up to its first await.
Call ==
    /\ pc = "idle"
    /\ filteredFiles' = filter(changedFiles)
    /\ ProcessFrom(1, filter(changedFiles), outstanding)
    /\ UNCHANGED <<items, firstRun, avatar, changedFiles, headRef, repoCoords, remote, fileResults, ast,
                   isReactComponent>>

\* The iteration without the early return: a truthy result is remembered and
\* the remaining files are still processed.
ContinueWithoutEarlyExit(result) ==
    /\ fileResults' = Append(fileResults, result)
    /\ IF result \in Errors
       THEN /\ pc' = "rejected"
            /\ verdict' = result
            /\ outstanding' = outstanding \ {index}
            /\ UNCHANGED <<index, fetchCalls>>
       ELSE IF index + 1 > Len(filteredFiles)
       THEN /\ pc' = "returned"
            /\ verdict' = IF \E k \in 1..Len(fileResults') : fileResults'[k] = "true"
                          THEN "true"
                          ELSE "false"
            /\ index' = index + 1
            /\ outstanding' = outstanding \ {index}
            /\ UNCHANGED fetchCalls
       ELSE ProcessFrom(index + 1, filteredFiles, outstanding \ {index})
    /\ UNCHANGED <<items, firstRun, avatar, changedFiles, headRef, repoCoords, remote, filteredFiles, ast,
                   isReactComponent>>

\* The iteration with return false in place of going on with the next file.
ContinueReturningFalseAtOnce(result) ==
    /\ fileResults' = Append(fileResults, result)
    /\ IF result \in Errors
       THEN /\ pc' = "rejected"
            /\ verdict' = result
       ELSE IF result = "true"
       THEN /\ pc' = "returned"
            /\ verdict' = "true"
       ELSE /\ pc' = "returned"
            /\ verdict' = "false"
    /\ outstanding' = outstanding \ {index}
    /\ UNCHANGED <<index, fetchCalls>>
    /\ UNCHANGED <<items, firstRun, avatar, changedFiles, headRef, repoCoords, remote, filteredFiles, ast,
                   isReactComponent>>

\* The iteration with one retry: after a first undefined result the request
\* for the same file is issued again.
ContinueRetryingOnce(result) ==
    IF /\ result = "undefined"
       /\ Cardinality({k \in 1..Len(fetchCalls) : fetchCalls[k].position = index}) < 2
    THEN /\ fetchCalls' = Append(fetchCalls, [position |-> index,
                                              path |-> filteredFiles[index].filename])
         /\ UNCHANGED <<pc, verdict, index, outstanding, fileResults>>
         /\ UNCHANGED <<items, firstRun, avatar, changedFiles, headRef, repoCoords, remote,
                        filteredFiles, ast, isReactComponent>>
    ELSE /\ fileResults' = Append(fileResults, result)
         /\ IF result \in Errors
            THEN /\ pc' = "rejected"
                 /\ verdict' = result
                 /\ outstanding' = outstanding \ {index}
                 /\ UNCHANGED <<index, fetchCalls>>
            ELSE IF result = "true"
            THEN /\ pc' = "returned"
                 /\ verdict' = "true"
                 /\ outstanding' = outstanding \ {index}
                 /\ UNCHANGED <<index, fetchCalls>>
            ELSE ProcessFrom(index + 1, filteredFiles, outstanding \ {index})
         /\ UNCHANGED <<items, firstRun, avatar, changedFiles, headRef, repoCoords, remote,
                        filteredFiles, ast, isReactComponent>>

\* The iteration of a loop that ends with the result of its last file in
\* place of false.
ContinueReturningLastResult(result) ==
    /\ fileResults' = Append(fileResults, result)
    /\ IF result \in Errors
       THEN /\ pc' = "rejected"
            /\ verdict' = result
            /\ outstanding' = outstanding \ {index}
            /\ UNCHANGED <<index, fetchCalls>>
       ELSE IF result = "true"
       THEN /\ pc' = "returned"
            /\ verdict' = "true"
            /\ outstanding' = outstanding \ {index}
            /\ UNCHANGED <<index, fetchCalls>>
       ELSE IF index + 1 > Len(filteredFiles)
       THEN /\ pc' = "returned"
            /\ verdict' = result
            /\ index' = index + 1
            /\ outstanding' = outstanding \ {index}
            /\ UNCHANGED fetchCalls
       ELSE ProcessFrom(index + 1, filteredFiles, outstanding \ {index})
    /\ UNCHANGED <<items, firstRun, avatar, changedFiles, headRef, repoCoords, remote,
                   filteredFiles, ast, isReactComponent>>

\* The rest of the iteration once detectReactComponentInFile has settled
\* with result: return true on a truthy result, go on with the next file on
\* a falsy one; an exception out of the awaited call rejects detectFunction.
Continue(result) ==
    /\ fileResults' = Append(fileResults, result)
    /\ IF result \in Errors
       THEN /\ pc' = "rejected"
            /\ verdict' = result
            /\ outstanding' = outstanding \ {index}
            /\ UNCHANGED <<index, fetchCalls>>
       ELSE IF result = "true"
       THEN /\ pc' = "returned"
            /\ verdict' = "true"
            /\ outstanding' = outstanding \ {index}
            /\ UNCHANGED <<index, fetchCalls>>
       ELSE ProcessFrom(index + 1, filteredFiles, outstanding \ {index})
    /\ UNCHANGED <<items, firstRun, avatar, changedFiles, headRef, repoCoords, remote, filteredFiles, ast,
                   isReactComponent>>

\* getContent resolves, with the match flag of the classifier kept in a
\* variable of the module: once a call has returned true the flag stays set.
FetchResolvedWithModuleFlag ==
    /\ pc = "awaiting"
    /\ index \in outstanding
    /\ remote[index].kind \in {"object", "text"}
    /\ Continue(IF firstRun # <<>> /\ firstRun[1].verdict = "true"
                THEN "true"
                ELSE detectReactComponentInFile(remote[index]))

\* getContent resolves for the request in flight.
FetchResolved ==
    /\ pc = "awaiting"
    /\ index \in outstanding
    /\ remote[index].kind \in {"object", "text"}
    /\ Continue(detectReactComponentInFile(remote[index]))

\* getContent with a timeout: a request that has no response is rejected
\* like a failed one.
FetchRejectedOnTimeout ==
    /\ pc = "awaiting"
    /\ index \in outstanding
    /\ remote[index].kind \in {"error", "pending"}
    /\ Continue("undefined")

\* getContent rejects for the request in flight.
FetchRejected ==
    /\ pc = "awaiting"
    /\ index \in outstanding
    /\ remote[index].kind = "error"
    /\ Continue(detectReactComponentInFile(remote[index]))

Next ==
    \/ Call
    \/ FetchResolved
    \/ FetchRejected

Spec ==
    Init /\ [][Next]_vars

----------------------------------------------------------------------------
(* Two calls of detectFunction in sequence against one content snapshot.   *)

\* The changed-file entries and the responses of the calls explored here and
\* in the runs with requests that never settle.
SomeChangedFiles ==
    {[filename |-> NameAJs, status |-> "added"],
     [filename |-> NameDTsx, status |-> "added"],
     [filename |-> NameAPy, status |-> "added"],
     [filename |-> NameAJs, status |-> "modified"]}

SomeResponses ==
    {ErrorResponse,
     [kind |-> "object", sample |-> "A"],
     [kind |-> "object", sample |-> "B"],
     [kind |-> "object", sample |-> "D"],
     [kind |-> "text", sample |-> "A"]}

InitTwoRuns ==
    /\ changedFiles \in SeqUpTo(SomeChangedFiles, MaxFiles)
    /\ headRef \in HeadRefs
    /\ repoCoords \in RepoCoords
    /\ remote \in [1..Len(filter(changedFiles)) ->
                       PossibleResponses(headRef, repoCoords) \cap SomeResponses]
    /\ pc = "idle"
    /\ filteredFiles = <<>>
    /\ index = 0
    /\ outstanding = {}
    /\ fetchCalls = <<>>
    /\ fileResults = <<>>
    /\ verdict = "none"
    /\ ast = Null
    /\ isReactComponent = "none"
    /\ items = Items
    /\ firstRun = <<>>
    /\ avatar = NoAvatar

\* Sequence s with e put at position p.
InsertAt(s, p, e) ==
    SubSeq(s, 1, p - 1) \o <<e>> \o SubSeq(s, p, Len(s))

\* The caller, once the first call has settled, sets up a second call on
\* files with the content snapshot responses.  filteredFiles and result are
\* locals of detectFunction and isReactComponent is a local of
\* detectReactComponent: each call starts with its own, and the module keeps
\* no other variable.  The settled call is recorded in firstRun.
NewCall(files, responses, relation) ==
    /\ pc \in {"returned", "rejected"}
    /\ firstRun = <<>>
    /\ firstRun' = <<[changedFiles |-> changedFiles,
                      remote |-> remote,
                      pc |-> pc,
                      verdict |-> verdict,
                      fetchCalls |-> fetchCalls,
                      fileResults |-> fileResults,
                      relation |-> relation]>>
    /\ changedFiles' = files
    /\ remote' = responses
    /\ pc' = "idle"
    /\ filteredFiles' = <<>>
    /\ index' = 0
    /\ outstanding' = {}
    /\ fetchCalls' = <<>>
    /\ fileResults' = <<>>
    /\ verdict' = "none"
    /\ UNCHANGED <<headRef, repoCoords, ast, isReactComponent, items, avatar>>

\* The second call is made on the list of the first.
CallAgainOnSameList ==
    NewCall(changedFiles, remote, "same")

\* The second call is made on the list of the first with one more entry at
\* some position; the snapshot answers the request for the new entry with a
\* response that is not an error and keeps its answers for the other files.
CallAgainOnSuperset ==
    \E p \in 1..(Len(changedFiles) + 1) : \E e \in SomeChangedFiles :
        IF filterFiles(e)
        THEN \E r \in PossibleResponses(headRef, repoCoords) \cap SomeResponses :
                 /\ r.kind # "error"
                 /\ NewCall(InsertAt(changedFiles, p, e),
                            InsertAt(remote, Len(filter(SubSeq(changedFiles, 1, p - 1))) + 1, r),
                            "superset")
        ELSE NewCall(InsertAt(changedFiles, p, e), remote, "superset")

NextTwoRuns ==
    \/ Call
    \/ FetchResolved
    \/ FetchRejected
    \/ CallAgainOnSameList
    \/ CallAgainOnSuperset

SpecTwoRuns ==
    InitTwoRuns /\ [][NextTwoRuns]_vars

----------------------------------------------------------------------------
(* Calls whose requests may never settle.                                  *)

\* getContent neither resolves nor rejects.
PendingResponse ==
    [kind |-> "pending", sample |-> "Empty"]

InitTermination ==
    /\ changedFiles \in SeqUpTo(SomeChangedFiles, MaxFiles)
    /\ headRef \in HeadRefs
    /\ repoCoords \in RepoCoords
    /\ remote \in [1..Len(filter(changedFiles)) ->
                       PossibleResponses(headRef, repoCoords) \cup {PendingResponse}]
    /\ pc = "idle"
    /\ filteredFiles = <<>>
    /\ index = 0
    /\ outstanding = {}
    /\ fetchCalls = <<>>
    /\ fileResults = <<>>
    /\ verdict = "none"
    /\ ast = Null
    /\ isReactComponent = "none"
    /\ items = Items
    /\ firstRun = <<>>
    /\ avatar = NoAvatar

\* The promise detectFunction awaits settles with some value and the loop
\* resumes: the steps of FetchResolved and FetchRejected, whatever the value.
FetchSettles ==
    /\ pc = "awaiting"
    /\ index \in outstanding
    /\ remote[index].kind # "pending"
    /\ \E result \in {"true", "false", "undefined"} : Continue(result)

\* The call is made, and the continuation of an await runs once its promise
\* has settled: a request that has a response is eventually answered and the
\* loop resumed.  A pending request enables no step.
SpecTermination ==
    /\ InitTermination
    /\ [][Next]_vars
    /\ WF_vars(Call)
    /\ WF_vars(FetchSettles)

----------------------------------------------------------------------------
(* The classifier on generated trees.                                      *)

ReturnArguments ==
    {Null, JSXElement, NumericLiteral}

Bodies ==
    SeqUpTo({ReturnStatement(a) : a \in ReturnArguments}, MaxBody)

Declarations ==
    {FunctionDeclaration(id, body) : id \in {Identifier("Foo"), Null}, body \in Bodies}

\* function Inner() { return ...; }, to be nested in another construct.
InnerDeclarations ==
    {FunctionDeclaration(Identifier("Inner"), <<ReturnStatement(a)>>) : a \in ReturnArguments}

\* function Inner() { return <div/>; }
InnerComponent ==
    FunctionDeclaration(Identifier("Inner"), <<ReturnStatement(JSXElement)>>)

\* Statements other than a function declaration with returns only: a
\* declaration nested in a function, in an arrow function, in a function
\* expression or in a class method; a return inside an if; an arrow
\* function, a function expression and a class method that return JSX.
Constructs ==
    {FunctionDeclaration(Identifier("outer"), <<d>>) : d \in InnerDeclarations}
        \cup {FunctionDeclaration(Identifier("Foo"), <<IfStatement(<<ReturnStatement(a)>>)>>) :
                  a \in {JSXElement, Null}}
        \cup {VariableDeclaration(ArrowFunctionExpression(TRUE, <<JSXElement>>)),
              VariableDeclaration(ArrowFunctionExpression(FALSE, <<ReturnStatement(JSXElement)>>)),
              VariableDeclaration(ArrowFunctionExpression(FALSE, <<InnerComponent>>)),
              VariableDeclaration(FunctionExpression(<<ReturnStatement(JSXElement)>>)),
              VariableDeclaration(FunctionExpression(<<InnerComponent>>)),
              ClassDeclaration(<<ClassMethod(<<ReturnStatement(JSXElement)>>)>>),
              ClassDeclaration(<<ClassMethod(<<InnerComponent>>)>>)}

\* A construct alone, or before or after one declaration.
ConstructBodies ==
    {<<c>> : c \in Constructs}
        \cup {<<c, d>> : c \in Constructs, d \in Declarations}
        \cup {<<d, c>> : c \in Constructs, d \in Declarations}

Programs ==
    {Program(body) : body \in SeqUpTo(Declarations, MaxDecls) \cup ConstructBodies}

InitClassifier ==
    /\ ast \in Programs
    /\ isReactComponent = "none"
    /\ changedFiles = <<>>
    /\ headRef = "present"
    /\ repoCoords = "present"
    /\ remote = <<>>
    /\ pc = "classifier"
    /\ filteredFiles = <<>>
    /\ index = 0
    /\ outstanding = {}
    /\ fetchCalls = <<>>
    /\ fileResults = <<>>
    /\ verdict = "none"
    /\ items = Items
    /\ firstRun = <<>>
    /\ avatar = NoAvatar

\* The traversal of detectReactComponent on a parsed source.
Classify ==
    /\ pc = "classifier"
    /\ isReactComponent = "none"
    /\ isReactComponent' = traverse(ast)
    /\ UNCHANGED <<items, firstRun, avatar, changedFiles, headRef, repoCoords, remote, pc, filteredFiles, index,
                   outstanding, fetchCalls, fileResults, verdict, ast>>

NextClassifier ==
    Classify

SpecClassifier ==
    InitClassifier /\ [][NextClassifier]_vars

----------------------------------------------------------------------------
(* The Avatar on screen.                                                   *)

InitAvatar ==
    /\ avatar \in {Mounted(source, fallbackIcon, type) :
                       source \in AvatarSources,
                       fallbackIcon \in FallbackIcons,
                       type \in AvatarTypes}
    /\ pc = "avatar"
    /\ changedFiles = <<>>
    /\ headRef = "present"
    /\ repoCoords = "present"
    /\ remote = <<>>
    /\ filteredFiles = <<>>
    /\ index = 0
    /\ outstanding = {}
    /\ fetchCalls = <<>>
    /\ fileResults = <<>>
    /\ verdict = "none"
    /\ ast = Null
    /\ isReactComponent = "none"
    /\ items = Items
    /\ firstRun = <<>>

\* The parent renders Avatar with another source.  The render reads
\* imageError as the state holds it; the effect that depends on [source] is
\* scheduled and runs after the render is committed.
SetSource ==
    /\ pc = "avatar"
    /\ \E source \in AvatarSources \ {avatar.source} :
           avatar' = Rerendered([avatar EXCEPT !.source = source,
                                               !.effectPending = TRUE,
                                               !.loadErrorSinceReset = FALSE])
    /\ UNCHANGED <<changedFiles, headRef, repoCoords, remote, pc, filteredFiles, index,
                   outstanding, fetchCalls, fileResults, verdict, ast, isReactComponent,
                   items, firstRun>>

\* useEffect(() => { setImageError(false); }, [source]) runs, and the
\* component renders with the new state.
RunSourceEffect ==
    /\ pc = "avatar"
    /\ avatar.effectPending
    /\ avatar' = Rerendered([avatar EXCEPT !.imageError = FALSE,
                                           !.effectPending = FALSE])
    /\ UNCHANGED <<changedFiles, headRef, repoCoords, remote, pc, filteredFiles, index,
                   outstanding, fetchCalls, fileResults, verdict, ast, isReactComponent,
                   items, firstRun>>

\* onError of the Image on screen: setImageError(true) and the render that
\* follows.
OnError ==
    /\ pc = "avatar"
    /\ avatar.rendered.element = "Image"
    /\ avatar' = Rerendered([avatar EXCEPT !.imageError = TRUE,
                                           !.loadErrorSinceReset = TRUE])
    /\ UNCHANGED <<changedFiles, headRef, repoCoords, remote, pc, filteredFiles, index,
                   outstanding, fetchCalls, fileResults, verdict, ast, isReactComponent,
                   items, firstRun>>

\* onReconnect of useNetwork: setImageError(false) and the render that
\* follows.
OnReconnect ==
    /\ pc = "avatar"
    /\ avatar' = Rerendered([avatar EXCEPT !.imageError = FALSE,
                                           !.loadErrorSinceReset = FALSE])
    /\ UNCHANGED <<changedFiles, headRef, repoCoords, remote, pc, filteredFiles, index,
                   outstanding, fetchCalls, fileResults, verdict, ast, isReactComponent,
                   items, firstRun>>

NextAvatar ==
    \/ SetSource
    \/ RunSourceEffect
    \/ OnError
    \/ OnReconnect

SpecAvatar ==
    InitAvatar /\ [][NextAvatar]_vars

----------------------------------------------------------------------------
(* Properties.                                                             *)

\* The configuration detectReactComponentInFile reads is complete.
ConfigurationValid ==
    headRef = "present" /\ repoCoords = "present"

\* Each response that carries a content field, paired with the text the
\* content fetcher hands to the classifier for it.
DecodedContents ==
    {<<r, nodeBase64ToUtf8(SampleBase64(r.sample))>> :
        r \in {q \in Responses : q.kind = "object"}}

DecodedContent(response) ==
    (CHOOSE p \in DecodedContents : p[1] = response)[2]

\* The file behind response is fetched successfully and the classifier,
\* called on its content, returns true.  (On a response that is a string the
\* classifier is never called.)
FetchedAndClassifiedTrue(response) ==
    /\ response.kind = "object"
    /\ detectReactComponent(DecodedContent(response)) = "true"

\* Positions of the filtered files whose iteration is complete.
Completed ==
    1..Len(fileResults)

\* C1: a failed content fetch for a filtered file never makes detectFunction
\* fail: the file's result is undefined (non-matching), the scan goes on with
\* the next filtered file, and the call returns true whenever a later
\* filtered file is fetched successfully and classified true.
C1_FetchFailureIsRecovered ==
    \A i \in Completed :
        remote[i].kind = "error" =>
            /\ fileResults[i] = "undefined"
            /\ pc # "rejected"
            /\ i < Len(filteredFiles) => Len(fetchCalls) >= i + 1
            /\ (/\ pc = "returned"
                /\ \E j \in DOMAIN remote : j > i /\ FetchedAndClassifiedTrue(remote[j]))
                   => verdict = "true"

\* C1 witness: the call returned true from a file that follows one whose
\* fetch failed.
C1_Witness ==
    /\ pc = "returned"
    /\ verdict = "true"
    /\ \E i \in Completed : \E j \in Completed :
           /\ i < j
           /\ remote[i].kind = "error"
           /\ FetchedAndClassifiedTrue(remote[j])

\* The fetched content of response is a source the parser rejects.
Unparseable(response) ==
    /\ response.kind = "object"
    /\ DecodedContent(response) # <<>>
    /\ parse(DecodedContent(response)) = SyntaxError

\* C2: when the fetched source of a filtered file cannot be parsed, the file
\* is non-matching (its result is undefined), the call is not rejected, the
\* next filtered file is fetched, and the call returns a verdict, which is
\* true if a later file qualifies.
C2_ParseFailureIsRecovered ==
    \A i \in Completed :
        Unparseable(remote[i]) =>
            /\ fileResults[i] = "undefined"
            /\ pc \in {"awaiting", "returned"}
            /\ i < Len(filteredFiles) => Len(fetchCalls) >= i + 1
            /\ pc = "returned" => verdict \in {"true", "false"}
            /\ (/\ pc = "returned"
                /\ \E j \in DOMAIN remote : j > i /\ FetchedAndClassifiedTrue(remote[j]))
                   => verdict = "true"

\* C2 witness: the call returned true from a file that follows one whose
\* source did not parse.
C2_Witness ==
    /\ pc = "returned"
    /\ verdict = "true"
    /\ \E i \in Completed : \E j \in Completed :
           /\ i < j
           /\ Unparseable(remote[i])
           /\ FetchedAndClassifiedTrue(remote[j])

\* Position i is the first filtered file that is classified true.
FirstClassifiedTrue(i) ==
    /\ i \in DOMAIN remote
    /\ FetchedAndClassifiedTrue(remote[i])
    /\ \A h \in 1..(i - 1) : ~FetchedAndClassifiedTrue(remote[h])

\* C3: if filtered file i is the first one classified true, no fetch is ever
\* issued for a filtered file after i, the call returns true as soon as the
\* result of file i is in, and it has then made exactly i fetch calls, one
\* for each of the files 1..i.
C3_EarlyExit ==
    \A i \in DOMAIN remote :
        FirstClassifiedTrue(i) =>
            /\ \A k \in 1..Len(fetchCalls) : fetchCalls[k].position <= i
            /\ Len(fileResults) >= i =>
                   /\ pc = "returned"
                   /\ verdict = "true"
                   /\ Len(fetchCalls) = i
                   /\ \A k \in 1..i : fetchCalls[k].position = k
            /\ pc = "returned" => Len(fileResults) = i

\* C3 witness: the call returned true at a first match that has filtered
\* files after it.
C3_Witness ==
    /\ pc = "returned"
    /\ verdict = "true"
    /\ \E i \in DOMAIN remote :
           /\ FirstClassifiedTrue(i)
           /\ i < Len(filteredFiles)
           /\ Len(fetchCalls) = i

\* C4 (as claimed): with the pull-request head ref or the repository
\* coordinates missing, detectFunction never returns a verdict: the call is
\* rejected, whatever the changed-file list.
C4_ConfigurationErrorsAbort ==
    pc = "returned" => ConfigurationValid

\* The result the claim expects for a fetched file: that of the classifier
\* on the source text itself, an exception of the classifier being caught.
ExpectedFileResult(response) ==
    CatchAndLog(detectReactComponent(SampleText(response.sample)))

\* C5 (as claimed): a base64 content field is decoded to the source text and
\* a response that is the text itself is passed unchanged, so the result of
\* a fetched file is the classifier's result on its source text; a text
\* response with a qualifying function gives true.
C5_ContentReachesClassifier ==
    \A i \in Completed :
        remote[i].kind # "error" => fileResults[i] = ExpectedFileResult(remote[i])

\* A top-level named function declaration with, directly in its body, a
\* return statement whose argument is a JSX element.
IsComponentDeclaration(node) ==
    /\ node.type = "FunctionDeclaration"
    /\ node.id # Null
    /\ \E k \in 1..Len(node.body) :
           /\ node.body[k].type = "ReturnStatement"
           /\ node.body[k].argument = JSXElement

\* C6 (as claimed): on every source that parses, return statements without
\* argument included, the classifier returns true if some named function
\* declaration returns a JSX element directly from its body, and false
\* otherwise, whatever the order of the declarations.
C6_ClassifierIsExact ==
    isReactComponent # "none" =>
        isReactComponent =
            IF \E d \in 1..Len(ast.body) : IsComponentDeclaration(ast.body[d])
            THEN "true"
            ELSE "false"

\* s ends with the characters of suffix.
HasSuffix(s, suffix) ==
    \E n \in 0..Len(s) : SubSeq(s, 1, n) \o suffix = s

\* An entry the file filter is to retain.
Retained(file) ==
    /\ file.status = "added"
    /\ \E ext \in {ExtJs, ExtJsx, ExtTs, ExtTsx} : HasSuffix(file.filename, ext)

\* Sequence sub consists of the entries of full at the positions in keep, in
\* the order of full.
IsSubsequenceAt(sub, full, keep) ==
    \E f \in [1..Len(sub) -> 1..Len(full)] :
        /\ \A a \in 1..Len(sub) : \A b \in 1..Len(sub) : a < b => f[a] < f[b]
        /\ \A k \in 1..Len(sub) : sub[k] = full[f[k]]
        /\ {f[k] : k \in 1..Len(sub)} = keep

C7_FilteredIsTheRetainedSubsequence ==
    pc \in {"awaiting", "returned", "rejected"} =>
        /\ IsSubsequenceAt(filteredFiles, changedFiles,
                           {i \in 1..Len(changedFiles) : Retained(changedFiles[i])})
        /\ Len(filteredFiles) <= Len(changedFiles)

\* C7: the filtered list is the order-preserving subsequence of the changed
\* files made of exactly the entries of status added whose file name ends,
\* case-sensitively, with .js, .jsx, .ts or .tsx; it is no longer than the
\* input, and the input list is never modified.
C7_FileFilter ==
    /\ []C7_FilteredIsTheRetainedSubsequence
    /\ [][changedFiles' = changedFiles]_vars

\* C7 witness: the filter dropped an added file with an upper-case extension
\* and kept the added .tsx file after it.
C7_Witness ==
    /\ pc = "awaiting"
    /\ changedFiles = <<[filename |-> NameEUpperJs, status |-> "added"],
                        [filename |-> NameDTsx, status |-> "added"]>>
    /\ filteredFiles = <<changedFiles[2]>>

\* C8: with no changed file that is both added and of a recognized
\* extension, detectFunction returns false and makes no fetch call.
C8_VacuousCase ==
    (\A i \in 1..Len(changedFiles) : ~Retained(changedFiles[i])) =>
        /\ fetchCalls = <<>>
        /\ outstanding = {}
        /\ pc \in {"awaiting", "returned", "rejected"} =>
               pc = "returned" /\ verdict = "false"

\* C8 witness: the call on [{filename: "a.py", status: "added"}] returned
\* false without a fetch call.
C8_Witness ==
    /\ changedFiles = <<[filename |-> NameAPy, status |-> "added"]>>
    /\ pc = "returned"
    /\ verdict = "false"
    /\ fetchCalls = <<>>

\* C9: with a valid configuration detectFunction is never rejected; it
\* returns true if and only if some filtered file is fetched successfully
\* and classified true, and it returns false only once every filtered file
\* has been processed.
C9_VerdictIsTheDisjunction ==
    (ConfigurationValid /\ pc \in {"awaiting", "returned", "rejected"}) =>
        /\ pc # "rejected"
        /\ pc = "returned" =>
               /\ verdict = IF \E i \in DOMAIN remote : FetchedAndClassifiedTrue(remote[i])
                            THEN "true"
                            ELSE "false"
               /\ verdict = "false" => Len(fileResults) = Len(filteredFiles)

\* C9 witness: the call returned true although the first filtered file was
\* classified false.
C9_Witness ==
    /\ ConfigurationValid
    /\ pc = "returned"
    /\ verdict = "true"
    /\ Len(fileResults) = 2
    /\ fileResults[1] = "false"

\* C10: at most one content fetch is in flight; a fetch is issued only when
\* every earlier filtered file has its result; the fetches are issued for
\* the filtered files one after the other, in the order of the input.
C10_SequentialProcessing ==
    /\ Cardinality(outstanding) <= 1
    /\ Len(fetchCalls) <= Len(fileResults) + 1
    /\ outstanding # {} =>
           /\ outstanding = {Len(fetchCalls)}
           /\ Len(fileResults) = Len(fetchCalls) - 1
    /\ \A k \in 1..Len(fetchCalls) :
           /\ fetchCalls[k].position = k
           /\ fetchCalls[k].path = filteredFiles[k].filename
    /\ \E f \in [1..Len(fetchCalls) -> 1..Len(changedFiles)] :
           /\ \A a \in 1..Len(fetchCalls) : \A b \in 1..Len(fetchCalls) :
                  a < b => f[a] < f[b]
           /\ \A k \in 1..Len(fetchCalls) : fetchCalls[k].path = changedFiles[f[k]].filename

\* C10 witness: the second fetch is in flight and the first file has its
\* result.
C10_Witness ==
    /\ pc = "awaiting"
    /\ outstanding = {2}
    /\ Len(fetchCalls) = 2
    /\ Len(fileResults) = 1

\* The call recorded in firstRun returned true and the current call is made
\* on a superset of its files.
SecondRunOnSupersetOfMatch ==
    /\ firstRun # <<>>
    /\ firstRun[1].relation = "superset"
    /\ firstRun[1].pc = "returned"
    /\ firstRun[1].verdict = "true"
    /\ \E p \in 1..Len(changedFiles) :
           firstRun[1].changedFiles =
               SubSeq(changedFiles, 1, p - 1) \o SubSeq(changedFiles, p + 1, Len(changedFiles))

\* C11: against one content snapshot, if detectFunction returned true for a
\* changed-file list, the call on that list with a file added at any
\* position, whose fetch does not fail, is not rejected and returns true,
\* whatever the added file contains.
C11_Monotonicity ==
    SecondRunOnSupersetOfMatch =>
        /\ pc # "rejected"
        /\ pc = "returned" => verdict = "true"

\* C11 witness: the second call returned true after having fetched the added
\* file, which is not a match, ahead of the files the first call fetched.
C11_Witness ==
    /\ SecondRunOnSupersetOfMatch
    /\ pc = "returned"
    /\ verdict = "true"
    /\ Len(fetchCalls) = Len(firstRun[1].fetchCalls) + 1
    /\ fileResults[1] # "true"
    /\ firstRun[1].fileResults[1] = "true"

\* Sequence s begins with sequence t.
IsPrefix(t, s) ==
    /\ Len(t) <= Len(s)
    /\ SubSeq(s, 1, Len(t)) = t

\* C12: a second call of detectFunction on the same changed-file list,
\* against the same snapshot and fetch outcomes, makes the fetch calls of the
\* first in the same order and settles as the first did, with the same
\* verdict and the same per-file results: nothing the first call set
\* influences the second.
C12_Idempotence ==
    (firstRun # <<>> /\ firstRun[1].relation = "same") =>
        /\ IsPrefix(fetchCalls, firstRun[1].fetchCalls)
        /\ IsPrefix(fileResults, firstRun[1].fileResults)
        /\ pc \in {"returned", "rejected"} =>
               /\ pc = firstRun[1].pc
               /\ verdict = firstRun[1].verdict
               /\ fetchCalls = firstRun[1].fetchCalls
               /\ fileResults = firstRun[1].fileResults

\* C12 witness: the second call on the same list returned true at its
\* second file, as the first call did.
C12_Witness ==
    /\ firstRun # <<>>
    /\ firstRun[1].relation = "same"
    /\ firstRun[1].verdict = "true"
    /\ pc = "returned"
    /\ verdict = "true"
    /\ Len(fetchCalls) = 2
    /\ fileResults = <<"false", "true">>

\* C13: the checklist is the list of the 10 statements of the module, in
\* their order, in every state of every call, whatever the verdict and
\* whatever fetch or parse failures occur, and no step changes it.
C13_ChecklistRegistry ==
    /\ [](Len(items) = 10 /\ items = Items)
    /\ [][items' = items]_vars

\* C13 witness: a call that met a fetch failure has returned true and the
\* checklist has its 10 statements.
C13_Witness ==
    /\ pc = "returned"
    /\ verdict = "true"
    /\ remote[1].kind = "error"
    /\ Len(items) = 10

\* The nodes directly inside a node: the statements of its block, the
\* members of a class, the initializer of a variable.
Parts(node) ==
    (IF "body" \in DOMAIN node THEN {node.body[k] : k \in 1..Len(node.body)} ELSE {})
        \cup (IF "consequent" \in DOMAIN node
              THEN {node.consequent[k] : k \in 1..Len(node.consequent)}
              ELSE {})
        \cup (IF "init" \in DOMAIN node THEN {node.init} ELSE {})

\* The nodes of a tree: the node and the nodes nested in it.
RECURSIVE NodesOf(_)
NodesOf(node) ==
    {node} \cup UNION {NodesOf(n) : n \in Parts(node)}

\* The named function declarations of the tree, at any depth, that return a
\* JSX element directly from their body.
ComponentDeclarations ==
    {n \in NodesOf(ast) : IsComponentDeclaration(n)}

\* No statement of the program is such a declaration, and one nested in
\* another function, in an arrow function or in a class method is.
OnlyNestedComponent ==
    /\ ComponentDeclarations # {}
    /\ \A d \in 1..Len(ast.body) : ~IsComponentDeclaration(ast.body[d])

\* A named function declaration has, directly in its body, a return
\* statement without argument.
BareReturnInNamedDeclaration ==
    \E n \in NodesOf(ast) :
        /\ n.type = "FunctionDeclaration"
        /\ n.id # Null
        /\ \E k \in 1..Len(n.body) : n.body[k] = ReturnStatement(Null)

ProducesJSX ==
    \E n \in NodesOf(ast) : n = JSXElement \/ n = ReturnStatement(JSXElement)

\* C15 (as claimed): a source that produces JSX only in arrow functions,
\* function expressions, anonymous function declarations or returns nested
\* in an inner block, no named function declaration returning a JSX element
\* directly from its body, is classified false.
C15_KnownNegatives ==
    (isReactComponent # "none" /\ ProducesJSX /\ ComponentDeclarations = {}) =>
        isReactComponent = "false"

\* C16 (as claimed): an added file whose source has type annotations and a
\* named function declaration returning a JSX element directly, fetched
\* successfully, parses and is classified true.
C16_TypeAnnotatedSourceIsClassified ==
    \A i \in Completed :
        remote[i] = [kind |-> "object", sample |-> "T"] => fileResults[i] = "true"

\* Every request the call issues has a response: a file whose request never
\* settles comes after a file that is classified true.
IssuedFetchesSettle ==
    \A i \in DOMAIN remote :
        remote[i].kind = "pending" =>
            \E j \in 1..(i - 1) : FetchedAndClassifiedTrue(remote[j])

\* The request in flight never settles.
AwaitingForever ==
    /\ pc = "awaiting"
    /\ remote[index].kind = "pending"

\* C17: with a valid configuration, if every issued fetch settles then
\* detectFunction eventually returns true or false; and there is no timeout:
\* while the request in flight has no response the call stays suspended,
\* returns nothing and issues no further fetch.
C17_Termination ==
    /\ (ConfigurationValid /\ IssuedFetchesSettle) ~>
           (pc = "returned" /\ verdict \in {"true", "false"})
    /\ [][AwaitingForever =>
              /\ pc' = "awaiting"
              /\ verdict' = "none"
              /\ fetchCalls' = fetchCalls
              /\ fileResults' = fileResults]_vars

\* C17 witness: the call is suspended on a request that never settles, with
\* a filtered file after it that has not been fetched.
C17_Witness ==
    /\ ConfigurationValid
    /\ AwaitingForever
    /\ index < Len(filteredFiles)
    /\ Len(fetchCalls) = index
    /\ verdict = "none"

\* C18: in every call each filtered file has at most one fetch call, a file
\* whose fetch failed has exactly one, every fetch call is for an entry of
\* the changed files that is added and of a recognized extension, and the
\* fetch calls are no more than the entries the filter retains.
C18_FetchDiscipline ==
    /\ \A a \in 1..Len(fetchCalls) : \A b \in 1..Len(fetchCalls) :
           a # b => fetchCalls[a].position # fetchCalls[b].position
    /\ \A i \in Completed :
           remote[i].kind = "error" =>
               Cardinality({k \in 1..Len(fetchCalls) : fetchCalls[k].position = i}) = 1
    /\ \A k \in 1..Len(fetchCalls) :
           \E i \in 1..Len(changedFiles) :
               /\ Retained(changedFiles[i])
               /\ changedFiles[i].filename = fetchCalls[k].path
    /\ Len(fetchCalls) <= Cardinality({i \in 1..Len(changedFiles) : Retained(changedFiles[i])})

\* C18 witness: of two changed files the filter rejected one; the fetch of
\* the other failed, and the call returned after that one fetch call.
C18_Witness ==
    /\ pc = "returned"
    /\ Len(changedFiles) = 2
    /\ Len(filteredFiles) = 1
    /\ remote[1].kind = "error"
    /\ Len(fetchCalls) = 1

\* C19: with a valid configuration detectFunction settles only by returning
\* true or false, while the result of a file whose fetched content is empty,
\* whose fetch failed or whose source did not parse is undefined.
C19_VerdictIsBoolean ==
    /\ (ConfigurationValid /\ pc \in {"returned", "rejected"}) =>
           /\ pc = "returned"
           /\ verdict \in {"true", "false"}
    /\ \A i \in Completed :
           (\/ remote[i].kind = "error"
            \/ Unparseable(remote[i])
            \/ (remote[i].kind = "object" /\ DecodedContent(remote[i]) = <<>>))
               => fileResults[i] = "undefined"

\* C19 witness: the call returned false from a file with empty content and
\* a file whose fetch failed, both of result undefined.
C19_Witness ==
    /\ ConfigurationValid
    /\ pc = "returned"
    /\ verdict = "false"
    /\ remote = <<[kind |-> "object", sample |-> "Empty"], ErrorResponse>>
    /\ fileResults = <<"undefined", "undefined">>

\* C20 (as claimed): over any sequence of image-load errors, source changes
\* and reconnects, the Avatar renders nothing when source is empty, and
\* otherwise shows the fallback avatar if an image-load error has occurred
\* since the most recent source change or reconnect and the given source if
\* none has.
C20_AvatarErrorState ==
    pc = "avatar" =>
        IF IsFalsy(avatar.source)
        THEN avatar.rendered.element = "null"
        ELSE /\ avatar.rendered.element \in {"Icon", "Image"}
             /\ avatar.rendered.source =
                    IF avatar.loadErrorSinceReset
                    THEN fallbackAvatar(avatar.type, avatar.fallbackIcon)
                    ELSE avatar.source

====
